---- MODULE Spec2Model ----
(***************************************************************************)
(* Model of the emotion fusion engine (src/multimodal_fusion.py):          *)
(* MultimodalFusion.normalize_emotion, _get_confidence,                    *)
(* _get_video_confidence and fuse_results.                                 *)
(*                                                                         *)
(* Python values are tagged records: [t |-> "str", v |-> <<chars>>],       *)
(* [t |-> "num", v |-> <<n, d>>] (exact rational n/d), [t |-> "None"],     *)
(* [t |-> "dict", ...].  A dict with a fixed set of possible keys is a     *)
(* record whose absent keys hold Missing.  A call yields Ok(value) or      *)
(* Raise(exception name).  Floating point is modelled by exact rationals.  *)
(***************************************************************************)
EXTENDS Integers, Sequences, FiniteSets, TLC

VARIABLES
    emotion,        \* normalize_emotion: the argument of the call
    normalized,     \* normalize_emotion: the outcome of the call
    c_result,       \* confidence extractors: the modality result passed in
    c_emotion,      \* confidence extractors: the target emotion
    c_out,          \* confidence extractors: [fn, out] of the last call
    text_result,    \* fuse_results: text modality result
    video_result,   \* fuse_results: video modality result
    audio_result,   \* fuse_results: audio modality result
    weights,        \* fuse_results: weights argument
    calls,          \* fuse_results: number of calls made on these arguments
    outcome,        \* fuse_results: outcome of the latest call
    prevOutcome,    \* fuse_results: outcome of the call before it
    message,        \* process_message: the argument of the call
    chat_out,       \* process_message: the outcome of the call
    api_calls,      \* process_message: the prompts sent to generate_content
    api_reply,      \* process_message: what generate_content answered (text or raise)
    processors,     \* app: the five module globals, None or the constructed object
    built,          \* app: how many times each processor has been constructed
    files,          \* app: the files in the temp_youtube directory
    request,        \* app: per thread, the request it serves
    pc,             \* app: per thread, the line it is at
    video_id,       \* app: per thread, the local video_id of analyze_youtube_video
    pending,        \* app: per thread, how the analysis steps ended
    response,       \* app: per thread, the HTTP status returned (0: none yet)
    cleanups,       \* app: per thread, the calls of youtube_processor.cleanup
    cleanup_failed, \* app: per thread, whether an os.remove of its cleanup failed
    used_none       \* app: per thread, whether it called a method on a None processor

normVars == <<emotion, normalized>>
confVars == <<c_result, c_emotion, c_out>>
fuseVars == <<text_result, video_result, audio_result, weights, calls, outcome, prevOutcome>>
chatVars == <<message, chat_out, api_calls, api_reply>>
appVars == <<processors, built, files, request, pc, video_id, pending, response,
             cleanups, cleanup_failed, used_none>>
\* the variables of the mood mapper and of the web application
extVars == <<chatVars, appVars>>
vars == <<emotion, normalized, c_result, c_emotion, c_out,
          text_result, video_result, audio_result, weights, calls, outcome, prevOutcome,
          extVars>>

-----------------------------------------------------------------------------
(* Bounds *)

\* longest label generated letter by letter for normalize_emotion
MaxLabelLen == 3
\* largest frame count / total_frames_processed of a video result
MaxFrames == 10
\* number of fuse_results calls made on one set of arguments
MaxCalls == 2
NumThreads == 2

-----------------------------------------------------------------------------
(* Python values and call outcomes *)

Missing == [t |-> "missing"]
PyNone == [t |-> "None"]
PyStr(cs) == [t |-> "str", v |-> cs]
PyList == [t |-> "list"]

Ok(x) == [ok |-> TRUE, v |-> x]
Raise(e) == [ok |-> FALSE, exc |-> e]
NotCalled == [ok |-> FALSE, exc |-> "not called"]
Returned(o) == o.ok
Raised(o) == ~o.ok /\ o.exc # "not called"

\* dict.get(key, default) on a dict given as a function
DictGet(d, k, default) == IF k \in DOMAIN d THEN d[k] ELSE default

-----------------------------------------------------------------------------
(* Strings are sequences of one-character strings *)

UpperChars == <<"A","B","C","D","E","F","G","H","I","J","K","L","M",
                "N","O","P","Q","R","S","T","U","V","W","X","Y","Z">>
LowerChars == <<"a","b","c","d","e","f","g","h","i","j","k","l","m",
                "n","o","p","q","r","s","t","u","v","w","x","y","z">>
Whitespace == {" ", "\t", "\n", "\r", "\f"}

Index(seq, c) == CHOOSE i \in 1..Len(seq) : seq[i] = c
LowerTable == [c \in {UpperChars[i] : i \in 1..Len(UpperChars)} |-> LowerChars[Index(UpperChars, c)]]
UpperTable == [c \in {LowerChars[i] : i \in 1..Len(LowerChars)} |-> UpperChars[Index(LowerChars, c)]]

LowerChar(c) == IF c \in DOMAIN LowerTable THEN LowerTable[c] ELSE c
UpperChar(c) == IF c \in DOMAIN UpperTable THEN UpperTable[c] ELSE c

\* str.lower()
StrLower(s) == [i \in 1..Len(s) |-> LowerChar(s[i])]
\* str.upper()
StrUpper(s) == [i \in 1..Len(s) |-> UpperChar(s[i])]

RECURSIVE LStrip(_)
LStrip(s) == IF s # <<>> /\ Head(s) \in Whitespace THEN LStrip(Tail(s)) ELSE s

RECURSIVE RStrip(_)
RStrip(s) ==
    IF s # <<>> /\ s[Len(s)] \in Whitespace THEN RStrip(SubSeq(s, 1, Len(s) - 1)) ELSE s

\* str.strip()
StrStrip(s) == RStrip(LStrip(s))

-----------------------------------------------------------------------------
(* EMOTION_MAPPING and normalize_emotion *)

s_Angry == <<"A","n","g","r","y">>
s_angry == <<"a","n","g","r","y">>
s_Disgust == <<"D","i","s","g","u","s","t">>
s_disgust == <<"d","i","s","g","u","s","t">>
s_disgusted == <<"d","i","s","g","u","s","t","e","d">>
s_Fear == <<"F","e","a","r">>
s_fear == <<"f","e","a","r">>
s_fearful == <<"f","e","a","r","f","u","l">>
s_Happy == <<"H","a","p","p","y">>
s_happy == <<"h","a","p","p","y">>
s_Neutral == <<"N","e","u","t","r","a","l">>
s_neutral == <<"n","e","u","t","r","a","l">>
s_Sad == <<"S","a","d">>
s_sad == <<"s","a","d">>
s_Surprise == <<"S","u","r","p","r","i","s","e">>
s_surprise == <<"s","u","r","p","r","i","s","e">>
s_surprised == <<"s","u","r","p","r","i","s","e","d">>
s_calm == <<"c","a","l","m">>

EMOTION_MAPPING ==
    (s_Angry :> s_angry) @@ (s_angry :> s_angry) @@
    (s_Disgust :> s_disgust) @@ (s_disgust :> s_disgust) @@ (s_disgusted :> s_disgust) @@
    (s_Fear :> s_fear) @@ (s_fear :> s_fear) @@ (s_fearful :> s_fear) @@
    (s_Happy :> s_happy) @@ (s_happy :> s_happy) @@
    (s_Neutral :> s_neutral) @@ (s_neutral :> s_neutral) @@
    (s_Sad :> s_sad) @@ (s_sad :> s_sad) @@
    (s_Surprise :> s_surprise) @@ (s_surprise :> s_surprise) @@ (s_surprised :> s_surprise) @@
    (s_calm :> s_calm)

\* mutant: the label is lower-cased but not stripped
normalize_emotion_nostrip(e) ==
    IF e.t # "str" THEN Raise("AttributeError")
    ELSE LET emotion_lower == StrLower(e.v)
         IN  Ok(DictGet(EMOTION_MAPPING, e.v,
                        DictGet(EMOTION_MAPPING, emotion_lower, emotion_lower)))

\* normalize_emotion(emotion): emotion is any Python value; .lower() exists on str only
normalize_emotion(e) ==
    IF e.t # "str" THEN Raise("AttributeError")
    ELSE LET emotion_lower == StrStrip(StrLower(e.v))
         IN  Ok(DictGet(EMOTION_MAPPING, e.v,
                        DictGet(EMOTION_MAPPING, emotion_lower, emotion_lower)))

\* normalize_emotion of a string, and the spelling it falls back to
NormStr(k) == normalize_emotion(PyStr(k)).v
LowerStripped(k) == StrStrip(StrLower(k))

-----------------------------------------------------------------------------
(* Exact rationals <<n, d>> with d > 0, kept in lowest terms *)

RECURSIVE GCD(_, _)
GCD(a, b) == IF b = 0 THEN a ELSE GCD(b, a % b)

Abs(x) == IF x < 0 THEN -x ELSE x

Rat(n, d) ==
    LET g == GCD(Abs(n), Abs(d))
        sgn == IF d < 0 THEN -1 ELSE 1
    IN  IF g = 0 THEN <<0, 1>> ELSE <<sgn * (n \div g), sgn * (d \div g)>>

RatAdd(a, b) == Rat(a[1] * b[2] + b[1] * a[2], a[2] * b[2])
RatMul(a, b) == Rat(a[1] * b[1], a[2] * b[2])
\* a / b for b # 0
RatDiv(a, b) == Rat(a[1] * b[2], a[2] * b[1])
RatLess(a, b) == a[1] * b[2] < b[1] * a[2]
RatLeq(a, b) == a[1] * b[2] <= b[1] * a[2]
RatZero == Rat(0, 1)
RatOne == Rat(1, 1)
RatHalf == Rat(1, 2)
RatHundred == Rat(100, 1)

\* round(x, 2): x to the nearest hundredth, an exact tie going to the even one
Round2(x) ==
    LET scaled == x[1] * 100
        q == scaled \div x[2]
        r == scaled % x[2]
        up == \/ 2 * r > x[2]
              \/ (2 * r = x[2] /\ q % 2 = 1)
    IN  Rat(IF up THEN q + 1 ELSE q, 100)

-----------------------------------------------------------------------------
PyNum(n, d) == [t |-> "num", v |-> Rat(n, d)]

(* Dicts in insertion order: a sequence of <<key, value>> items *)

PyDict(items) == [t |-> "dict", v |-> items]
DictHas(items, k) == \E i \in 1..Len(items) : items[i][1] = k
DictAt(items, k) == items[CHOOSE i \in 1..Len(items) : items[i][1] = k][2]

\* a modality result: a dict with these possible keys, Missing marking an absent key
ModalityResult(dom, scores, dist, total) ==
    [t |-> "dict", dominant_emotion |-> dom, confidence_scores |-> scores,
     emotion_distribution |-> dist, total_frames_processed |-> total]

\* result.get(key, default); a result that is not a dict has no .get
ResultGet(result, key, default) ==
    IF result.t # "dict" THEN Raise("AttributeError")
    ELSE IF result[key] = Missing THEN Ok(default) ELSE Ok(result[key])

-----------------------------------------------------------------------------
(* _get_confidence and _get_video_confidence *)

\* _get_confidence(result, emotion): emotion is a string (a character sequence)
_get_confidence(result, emo) ==
    LET got == ResultGet(result, "confidence_scores", PyDict(<<>>))
    IN  IF ~got.ok THEN got
        ELSE LET confidence_scores == got.v
             IN  CASE confidence_scores.t = "dict" ->
                        \* emotion in confidence_scores: the key itself, not normalized
                        IF DictHas(confidence_scores.v, emo)
                        THEN LET value == DictAt(confidence_scores.v, emo)
                             IN  IF value.t = "num" THEN Ok(RatDiv(value.v, RatHundred))
                                 ELSE Raise("TypeError")
                        ELSE Ok(RatHalf)
                  \* an (empty) list supports "in" and holds no emotion
                  [] confidence_scores.t = "list" -> Ok(RatHalf)
                  \* None and numbers do not support "in"
                  [] OTHER -> Raise("TypeError")

\* the loop of _get_video_confidence over emotion_dist.items() from item i on
RECURSIVE VideoScan(_, _, _, _)
VideoScan(items, i, total, emo) ==
    IF i > Len(items) THEN Ok(RatHalf)
    ELSE LET key == items[i][1]
             value == items[i][2]
             norm == normalize_emotion(PyStr(key))
         IN  IF ~norm.ok THEN norm
             ELSE IF norm.v = emo
             THEN \* value / total if total > 0 else 0.0
                  IF total.t # "num" THEN Raise("TypeError")
                  ELSE IF RatLess(RatZero, total.v)
                  THEN IF value.t = "num" THEN Ok(RatDiv(value.v, total.v))
                       ELSE Raise("TypeError")
                  ELSE Ok(RatZero)
             ELSE VideoScan(items, i + 1, total, emo)

\* mutant: a zero total is tested before the keys are searched
_get_video_confidence_zerofirst(result, emo) ==
    LET gotDist == ResultGet(result, "emotion_distribution", PyDict(<<>>))
        gotTotal == ResultGet(result, "total_frames_processed", PyNum(1, 1))
    IN  IF ~gotDist.ok THEN gotDist
        ELSE IF gotDist.v.t # "dict" THEN Raise("AttributeError")
        ELSE IF gotTotal.v.t = "num" /\ gotTotal.v.v = RatZero THEN Ok(RatZero)
        ELSE VideoScan(gotDist.v.v, 1, gotTotal.v, emo)

\* _get_video_confidence(result, emotion)
_get_video_confidence(result, emo) ==
    LET gotDist == ResultGet(result, "emotion_distribution", PyDict(<<>>))
        gotTotal == ResultGet(result, "total_frames_processed", PyNum(1, 1))
    IN  IF ~gotDist.ok THEN gotDist
        \* None, lists and numbers have no .items()
        ELSE IF gotDist.v.t # "dict" THEN Raise("AttributeError")
        ELSE VideoScan(gotDist.v.v, 1, gotTotal.v, emo)

-----------------------------------------------------------------------------
(* fuse_results *)

\* weights: None, or a dict with some of the keys text, video, audio
Weights(t, v, a) == [t |-> "dict", text |-> t, video |-> v, audio |-> a]
DefaultWeights == Weights(PyNum(3, 10), PyNum(4, 10), PyNum(3, 10))

\* weights[key]
WeightAt(w, key) == IF w[key] = Missing THEN Raise("KeyError") ELSE Ok(w[key])

\* confidence * weights[key]
Weighted(conf, w, key) ==
    LET got == WeightAt(w, key)
    IN  IF ~got.ok THEN got
        ELSE IF got.v.t # "num" THEN Raise("TypeError")
        ELSE Ok(RatMul(conf, got.v.v))

\* self.normalize_emotion(result.get('dominant_emotion', 'neutral'))
DominantOf(result) ==
    LET got == ResultGet(result, "dominant_emotion", PyStr(s_neutral))
    IN  IF ~got.ok THEN got ELSE normalize_emotion(got.v)

\* the orders in which a set of strings can be iterated (set the hash seed decides)
IterationOrders(S) ==
    {o \in [1..Cardinality(S) -> S] : \A i, j \in 1..Cardinality(S) : o[i] = o[j] => i = j}

RECURSIVE SumOver(_, _)
SumOver(f, S) ==
    IF S = {} THEN RatZero
    ELSE LET x == CHOOSE y \in S : TRUE
         IN  RatAdd(f[x], SumOver(f, S \ {x}))

\* max(emotion_scores, key=emotion_scores.get): the first key, in the insertion
\* order of the dict, whose score no other key exceeds
MaxKey(scores, order) ==
    order[CHOOSE i \in 1..Len(order) :
            \A j \in 1..Len(order) :
                \/ RatLess(scores[order[j]], scores[order[i]])
                \/ (scores[order[j]] = scores[order[i]] /\ i <= j)]

\* mutant: the scores are rescaled to fractions of 1
Percentages_fraction(scores) ==
    LET total_score == SumOver(scores, DOMAIN scores)
    IN  IF RatLess(RatZero, total_score)
        THEN [k \in DOMAIN scores |-> RatDiv(scores[k], total_score)]
        ELSE scores

\* lines 89-92: the scores as percentages of their total, when it is positive
Percentages(scores) ==
    LET total_score == SumOver(scores, DOMAIN scores)
    IN  IF RatLess(RatZero, total_score)
        THEN [k \in DOMAIN scores |-> RatMul(RatDiv(scores[k], total_score), RatHundred)]
        ELSE scores

\* mutant: every emotion of the taxonomy gets a score
ScoredEmotions_all(te, ve, ae) ==
    {s_happy, s_sad, s_angry, s_fear, s_disgust, s_surprise, s_neutral, s_calm}

\* all_emotions = set([text_emotion, video_emotion, audio_emotion])
ScoredEmotions(te, ve, ae) == {te, ve, ae}

\* lines 73-83: the weighted vote; wt, wv, wa are the outcomes of
\* confidence * weights[modality]
WeightedScores(te, ve, ae, wt, wv, wa) ==
    [e \in ScoredEmotions(te, ve, ae) |->
        RatAdd(RatAdd(IF e = te THEN wt ELSE RatZero,
                      IF e = ve THEN wv ELSE RatZero),
               IF e = ae THEN wa ELSE RatZero)]

ModalityEntry(e, c) == [emotion |-> e, confidence |-> c]
FusedResult(dom, conf, scores, t, v, a) ==
    [dominant_emotion |-> dom, confidence |-> conf, emotion_scores |-> scores,
     modality_results |-> [text |-> t, video |-> v, audio |-> a]]

\* lines 60-62: the normalized labels <<text, video, audio>>
Labels(tr, vr, ar) ==
    LET te == DominantOf(tr)
        ve == DominantOf(vr)
        ae == DominantOf(ar)
    IN  IF ~te.ok THEN te ELSE IF ~ve.ok THEN ve ELSE IF ~ae.ok THEN ae
        ELSE Ok(<<te.v, ve.v, ae.v>>)

\* lines 65-67: the confidences <<text, video, audio>> of the labels l
Confidences(tr, vr, ar, l) ==
    LET tc == _get_confidence(tr, l[1])
        vc == _get_video_confidence(vr, l[2])
        ac == _get_confidence(ar, l[3])
    IN  IF ~tc.ok THEN tc ELSE IF ~vc.ok THEN vc ELSE IF ~ac.ok THEN ac
        ELSE Ok(<<tc.v, vc.v, ac.v>>)

\* the products confidence * weights[modality] of lines 77, 79 and 81
Products(c, ws) ==
    LET wt == Weighted(c[1], ws, "text")
        wv == Weighted(c[2], ws, "video")
        wa == Weighted(c[3], ws, "audio")
    IN  IF ~wt.ok THEN wt ELSE IF ~wv.ok THEN wv ELSE IF ~wa.ok THEN wa
        ELSE Ok(<<wt.v, wv.v, wa.v>>)

VoteRecord(l, c, p) ==
    [te |-> l[1], ve |-> l[2], ae |-> l[3],
     tc |-> c[1], vc |-> c[2], ac |-> c[3],
     wt |-> p[1], wv |-> p[2], wa |-> p[3]]

VotesOfConfidences(l, c, ws) ==
    LET p == Products(c, ws)
    IN  IF ~p.ok THEN p ELSE Ok(VoteRecord(l, c, p.v))

VotesOfLabels(tr, vr, ar, l, ws) ==
    LET c == Confidences(tr, vr, ar, l)
    IN  IF ~c.ok THEN c ELSE VotesOfConfidences(l, c.v, ws)

\* lines 56-81 up to the scores: the normalized labels, the confidences and
\* confidence * weights[modality] of the three modalities
Votes(tr, vr, ar, ws) ==
    LET l == Labels(tr, vr, ar)
    IN  IF ~l.ok THEN l
        ELSE VotesOfLabels(tr, vr, ar, l.v, IF ws = PyNone THEN DefaultWeights ELSE ws)

\* lines 85-114: the result built from the scores, iterated in this order
ResultOfScores(m, emotion_scores, order) ==
    LET dominant_emotion == MaxKey(emotion_scores, order)
    IN  FusedResult(dominant_emotion,
                    Round2(RatMul(emotion_scores[dominant_emotion], RatHundred)),
                    Percentages(emotion_scores),
                    ModalityEntry(m.te, Round2(m.tc)),
                    ModalityEntry(m.ve, Round2(m.vc)),
                    ModalityEntry(m.ae, Round2(m.ac)))

\* lines 69-114 on the votes m
ResultOfVotes(m, order) ==
    ResultOfScores(m, WeightedScores(m.te, m.ve, m.ae, m.wt, m.wv, m.wa), order)

\* the try block, lines 55-114; order is the iteration order of all_emotions
WeightedPath(tr, vr, ar, ws, order) ==
    LET got == Votes(tr, vr, ar, ws)
    IN  IF ~got.ok THEN got ELSE Ok(ResultOfVotes(got.v, order))

\* mutant: on a tie the label met last wins
MostCommon_last(emotions) ==
    LET count(i) == Cardinality({j \in 1..Len(emotions) : emotions[j] = emotions[i]})
    IN  emotions[CHOOSE i \in 1..Len(emotions) :
                    \A j \in 1..Len(emotions) :
                        \/ count(j) < count(i)
                        \/ (count(j) = count(i) /\ emotions[j] = emotions[i])
                        \/ (count(j) = count(i) /\ j < i)]

\* mutant: the fallback answers neutral whatever the modalities voted
MostCommon_neutral(emotions) == s_neutral

\* Counter(emotions).most_common(1)[0][0]: the most frequent, the earliest on a tie
MostCommon(emotions) ==
    LET count(i) == Cardinality({j \in 1..Len(emotions) : emotions[j] = emotions[i]})
    IN  emotions[CHOOSE i \in 1..Len(emotions) :
                    \A j \in 1..Len(emotions) :
                        \/ count(j) < count(i)
                        \/ (count(j) = count(i) /\ emotions[j] = emotions[i])
                        \/ (count(j) = count(i) /\ i < j)]

\* mutant: the fallback reads the label with result['dominant_emotion']
FallbackDominantOf_index(result) ==
    IF result.t # "dict" THEN Raise("TypeError")
    ELSE IF result.dominant_emotion = Missing THEN Raise("KeyError")
    ELSE normalize_emotion(result.dominant_emotion)

\* lines 120-122: the label of one modality as the except branch reads it
FallbackDominantOf(result) == DominantOf(result)

\* lines 119-123: the list emotions
FallbackLabels(tr, vr, ar) ==
    LET te == FallbackDominantOf(tr)
        ve == FallbackDominantOf(vr)
        ae == FallbackDominantOf(ar)
    IN  IF ~te.ok THEN te ELSE IF ~ve.ok THEN ve ELSE IF ~ae.ok THEN ae
        ELSE Ok(<<te.v, ve.v, ae.v>>)

\* lines 124-135: the result of the majority vote over emotions
FallbackResult(emotions, dominant_emotion) ==
    FusedResult(dominant_emotion,
                Rat(50, 1),
                (dominant_emotion :> RatHundred),
                ModalityEntry(emotions[1], Rat(333, 10)),
                ModalityEntry(emotions[2], Rat(333, 10)),
                ModalityEntry(emotions[3], Rat(333, 10)))

\* the except branch, lines 116-135
FallbackPath(tr, vr, ar) ==
    LET l == FallbackLabels(tr, vr, ar)
    IN  IF ~l.ok THEN l ELSE Ok(FallbackResult(l.v, MostCommon(l.v)))

\* fuse_results(text_result, video_result, audio_result, weights)
fuse_results(tr, vr, ar, ws, order) ==
    LET tried == WeightedPath(tr, vr, ar, ws, order)
    IN  IF tried.ok THEN tried ELSE FallbackPath(tr, vr, ar)

\* the iteration orders all_emotions can have in a call on these results: those
\* of the set of normalized labels (any, when the call fails before the set is built)
CallOrders(tr, vr, ar) ==
    LET l == Labels(tr, vr, ar)
    IN  IF l.ok THEN IterationOrders({l.v[1], l.v[2], l.v[3]}) ELSE {<<>>}

-----------------------------------------------------------------------------
(* Specification SpecNorm: normalize_emotion applied to one label *)

NormAlphabet == {"s", "a", "d", "S", "A", "D", " "}

RECURSIVE StringsUpTo(_)
StringsUpTo(n) ==
    IF n = 0 THEN {<<>>}
    ELSE LET shorter == StringsUpTo(n - 1)
         IN  shorter \cup {Append(s, c) : s \in shorter, c \in NormAlphabet}

TableKeys == DOMAIN EMOTION_MAPPING

\* the labels the modalities use, in other cases and with surrounding whitespace
LabelVariants ==
    TableKeys
    \cup {StrUpper(k) : k \in TableKeys}
    \cup {<<" ">> \o k \o <<" ", "\n">> : k \in TableKeys}
    \cup {<<"\t">> \o StrUpper(k) : k \in TableKeys}
    \cup {<<"C","a","l","m">>, <<"b","o","r","e","d">>, <<"B","o","r","e","d"," ">>}

NormInputs ==
    {PyStr(s) : s \in LabelVariants \cup StringsUpTo(MaxLabelLen)}
    \cup {PyNone, PyNum(5, 1)}

IdleNorm == emotion = PyNone /\ normalized = NotCalled
IdleConf == c_result = PyNone /\ c_emotion = <<>> /\ c_out = [fn |-> "none", out |-> NotCalled]
IdleFuse ==
    /\ text_result = PyNone /\ video_result = PyNone /\ audio_result = PyNone
    /\ weights = PyNone /\ calls = 0 /\ outcome = NotCalled /\ prevOutcome = NotCalled

IdleChat ==
    message = <<>> /\ chat_out = NotCalled /\ api_calls = <<>> /\ api_reply = NotCalled
IdleApp ==
    /\ processors = <<>> /\ built = <<>> /\ files = {} /\ request = <<>> /\ pc = <<>>
    /\ video_id = <<>> /\ pending = <<>> /\ response = <<>> /\ cleanups = <<>>
    /\ cleanup_failed = <<>> /\ used_none = <<>>
IdleExt == IdleChat /\ IdleApp

InitNorm ==
    /\ emotion \in NormInputs
    /\ normalized = NotCalled
    /\ IdleConf
    /\ IdleFuse
    /\ IdleExt

NormalizeEmotion ==
    /\ normalized = NotCalled
    /\ normalized' = normalize_emotion(emotion)
    /\ UNCHANGED <<emotion, confVars, fuseVars, extVars>>

NextNorm == NormalizeEmotion

SpecNorm == InitNorm /\ [][NextNorm]_vars

-----------------------------------------------------------------------------
(* Specification SpecConf: one confidence extractor applied to one modality result *)

NonNumeric == PyStr(<<"h", "i", "g", "h">>)

Items1(K, V) == {<< <<k, v>> >> : k \in K, v \in V}
Items2(K, V) == {<< <<k1, v1>>, <<k2, v2>> >> : k1 \in K, k2 \in K, v1 \in V, v2 \in V}
DistinctKeys(items) == \A i, j \in 1..Len(items) : items[i][1] = items[j][1] => i = j

ConfTargets == {s_happy, s_fear, s_sad}

ScoreKeys == {s_happy, s_Happy, s_fear, s_fearful}
ScoreValues == {PyNum(0, 1), PyNum(50, 1), PyNum(80, 1), PyNum(100, 1), NonNumeric}
ScorePayloads ==
    {Missing, PyNone, PyList, PyDict(<<>>)}
    \cup {PyDict(items) : items \in Items1(ScoreKeys, ScoreValues)}
    \cup {PyDict(items) : items \in {it \in Items2(ScoreKeys, ScoreValues) : DistinctKeys(it)}}

FrameKeys == {s_Happy, s_happy, s_Sad}
FrameCounts == {PyNum(c, 1) : c \in 0..MaxFrames} \cup {NonNumeric}
FramePayloads ==
    {Missing, PyNone, PyDict(<<>>)}
    \cup {PyDict(items) : items \in Items1(FrameKeys, FrameCounts)}
    \cup {PyDict(items) : items \in {it \in Items2(FrameKeys, FrameCounts) : DistinctKeys(it)}}
FrameTotals == {Missing, PyNone} \cup {PyNum(c, 1) : c \in 0..MaxFrames}

ConfResults ==
    {PyNone}
    \cup {ModalityResult(Missing, p, Missing, Missing) : p \in ScorePayloads}
    \cup {ModalityResult(Missing, Missing, p, n) : p \in FramePayloads, n \in FrameTotals}

InitConf ==
    /\ c_result \in ConfResults
    /\ c_emotion \in ConfTargets
    /\ c_out = [fn |-> "none", out |-> NotCalled]
    /\ IdleNorm
    /\ IdleFuse
    /\ IdleExt

GetConfidence ==
    /\ c_out.fn = "none"
    /\ c_out' = [fn |-> "score", out |-> _get_confidence(c_result, c_emotion)]
    /\ UNCHANGED <<c_result, c_emotion, normVars, fuseVars, extVars>>

GetVideoConfidence ==
    /\ c_out.fn = "none"
    /\ c_out' = [fn |-> "video", out |-> _get_video_confidence(c_result, c_emotion)]
    /\ UNCHANGED <<c_result, c_emotion, normVars, fuseVars, extVars>>

NextConf == GetConfidence \/ GetVideoConfidence

SpecConf == InitConf /\ [][NextConf]_vars

-----------------------------------------------------------------------------
(* Specification Spec: fuse_results called on one triple of modality results *)

FuseLabels == {Missing, PyStr(s_happy), PyStr(s_Sad), PyNum(5, 1)}

Score1(k, v) == PyDict(<< <<k, v>> >>)
FuseScorePayloads ==
    {Missing, PyNone,
     Score1(s_happy, PyNum(90, 1)), Score1(s_sad, PyNum(90, 1)),
     Score1(s_sad, PyNum(0, 1)), Score1(s_happy, NonNumeric)}

\* <<emotion_distribution, total_frames_processed>>
FuseFrameEvidence ==
    {<<Missing, Missing>>,
     <<PyNone, PyNum(10, 1)>>,
     <<Score1(s_Sad, PyNum(9, 1)), PyNum(10, 1)>>,
     <<Score1(s_Sad, PyNum(0, 1)), PyNum(10, 1)>>,
     <<Score1(s_Happy, PyNum(8, 1)), Missing>>,
     <<Score1(s_Sad, PyNum(9, 1)), PyNum(0, 1)>>}

FuseScoreResults ==
    {PyNone} \cup {ModalityResult(l, p, Missing, Missing) : l \in FuseLabels, p \in FuseScorePayloads}
FuseVideoResults ==
    {PyNone} \cup {ModalityResult(l, Missing, ev[1], ev[2]) : l \in FuseLabels, ev \in FuseFrameEvidence}
FuseWeights ==
    {PyNone,
     Weights(PyNum(1, 1), PyNum(1, 1), PyNum(1, 1)),
     Weights(PyNum(1, 2), PyNum(1, 2), Missing)}

Init ==
    /\ text_result \in FuseScoreResults
    /\ video_result \in FuseVideoResults
    /\ audio_result \in FuseScoreResults
    /\ weights \in FuseWeights
    /\ calls = 0
    /\ outcome = NotCalled
    /\ prevOutcome = NotCalled
    /\ IdleNorm
    /\ IdleConf
    /\ IdleExt

\* one call of fuse_results, in a process whose string hashing iterates
\* all_emotions in some order
FuseResults ==
    /\ calls < MaxCalls
    /\ \E order \in CallOrders(text_result, video_result, audio_result) :
           outcome' = fuse_results(text_result, video_result, audio_result, weights, order)
    /\ prevOutcome' = outcome
    /\ calls' = calls + 1
    /\ UNCHANGED <<text_result, video_result, audio_result, weights, normVars, confVars, extVars>>

Next == FuseResults

Spec == Init /\ [][Next]_vars

-----------------------------------------------------------------------------
(* The mood mapper (src/gemini_chat.py): normalize_mood, get_mood_recommendation, *)
(* process_message *)

s_Calm == <<"C","a","l","m">>

EMOTIONS ==
    (s_Neutral :> "Let's do something fun! Would you like to play a quick game, hear an interesting fact, or get a fun challenge?") @@
    (s_Happy :> "You're in a great mood! Let's keep the positivity going. Want to listen to an uplifting story, get a fun challenge, or share a happy memory?") @@
    (s_Sad :> "I'm here for you. Would you like some calming music recommendations, a motivational story, or a virtual hug?") @@
    (s_Angry :> "I understand frustration can be tough. Want to try a quick breathing exercise, hear a calming story, or vent your thoughts?") @@
    (s_Fear :> "You're not alone! Let's ease your mind. Want a comforting quote, a guided relaxation, or an inspiring success story?") @@
    (s_Disgust :> "Let's distract your mind. Want to hear a joke, learn a new interesting fact, or play a quick word game?") @@
    (s_Surprise :> "Surprises can be fun! Want to share what happened, hear about a surprising event, or play a quick reaction game?") @@
    (s_Calm :> "A peaceful moment is precious. Would you like to try meditation, listen to soothing nature sounds, or explore a new mindfulness tip?")

UnrecognizedMood == "I didn't recognize that mood. Can you describe how you're feeling?"

MOOD_ALIASES ==
    (s_fearful :> s_fear) @@ (s_fear :> s_fear) @@
    (s_disgusted :> s_disgust) @@ (s_disgust :> s_disgust) @@
    (s_surprised :> s_surprise) @@ (s_surprise :> s_surprise) @@
    (s_neutral :> s_neutral) @@ (s_happy :> s_happy) @@ (s_sad :> s_sad) @@
    (s_angry :> s_angry) @@ (s_calm :> s_calm)

IsLetter(c) == c \in DOMAIN LowerTable \/ c \in DOMAIN UpperTable

\* str.title(): a letter is upper-cased after a non-letter or at the start, and
\* lower-cased after a letter
StrTitle(s) ==
    [i \in 1..Len(s) |->
        IF i > 1 /\ IsLetter(s[i - 1]) THEN LowerChar(s[i]) ELSE UpperChar(s[i])]

\* mutant: the synonym table is not consulted
normalize_mood_noalias(mood) == StrTitle(StrLower(StrStrip(mood)))

\* normalize_mood(mood)
normalize_mood(mood) ==
    LET key == StrLower(StrStrip(mood))
    IN  StrTitle(DictGet(MOOD_ALIASES, key, key))

\* get_mood_recommendation(mood)
get_mood_recommendation(mood) == DictGet(EMOTIONS, normalize_mood(mood), UnrecognizedMood)

\* process_message(message): whether generate_content is called
CallsGemini(msg) == normalize_mood(msg) \notin DOMAIN EMOTIONS

\* process_message(message), reply being what generate_content does when called:
\* Ok(response.text) or a raise
process_message(msg, reply) ==
    IF ~CallsGemini(msg) THEN Ok(get_mood_recommendation(normalize_mood(msg)))
    ELSE reply

-----------------------------------------------------------------------------
(* Specification SpecChat: process_message called on one message *)

MoodSpellings ==
    DOMAIN MOOD_ALIASES
    \cup DOMAIN EMOTIONS
    \cup {StrUpper(k) : k \in DOMAIN MOOD_ALIASES}
    \cup {<<" ">> \o k \o <<" ">> : k \in DOMAIN MOOD_ALIASES}
    \cup {<<"\t">> \o StrUpper(k) \o <<"\n">> : k \in DOMAIN MOOD_ALIASES}

ChatInputs ==
    MoodSpellings
    \cup StringsUpTo(MaxLabelLen)
    \cup {<<"x","y","z","z","y">>, <<"s","a","d"," ","d","a","y">>, <<"s","a","d","!">>,
          <<"F","e","a","r","s">>}

\* what generate_content can do: answer some text, or fail
GeminiTexts == {"You could take a walk.", ""}
GeminiReplies == {Ok(t) : t \in GeminiTexts} \cup {Raise("APIError")}

InitChat ==
    /\ message \in ChatInputs
    /\ chat_out = NotCalled
    /\ api_calls = <<>>
    /\ api_reply = NotCalled
    /\ IdleNorm
    /\ IdleConf
    /\ IdleFuse
    /\ IdleApp

\* one call of process_message
ProcessMessage ==
    /\ chat_out = NotCalled
    /\ \E reply \in GeminiReplies :
           IF CallsGemini(message)
           THEN /\ api_calls' = Append(api_calls, message)
                /\ api_reply' = reply
                /\ chat_out' = process_message(message, reply)
           ELSE /\ UNCHANGED <<api_calls, api_reply>>
                /\ chat_out' = process_message(message, reply)
    /\ UNCHANGED <<message, normVars, confVars, fuseVars, appVars>>

NextChat == ProcessMessage

SpecChat == InitChat /\ [][NextChat]_vars

-----------------------------------------------------------------------------
(* The web application (src/app.py) and the temp directory of YouTubeProcessor *)
(* (src/youtube_processor.py), served by concurrent request threads *)

Threads == 1..NumThreads

HTTP_OK == 200
HTTP_BAD_REQUEST == 400
HTTP_ERROR == 500

\* the module globals in the order initialize_processors assigns them
ProcessorNames ==
    <<"youtube_processor", "audio_detector", "video_detector", "text_analyzer",
      "fusion_engine">>
ProcessorSet == {ProcessorNames[k] : k \in 1..Len(ProcessorNames)}
Constructed == [t |-> "object"]

\* the processors the analysis steps 3 to 6 call, in order
AnalysisSteps == <<"text_analyzer", "video_detector", "audio_detector", "fusion_engine">>

s_unknown == <<"u","n","k","n","o","w","n">>
VideoId1 == <<"d","Q","w","4","w","9","W","g","X","c","Q">>

\* a URL one of the patterns matches, with the 11 characters it captures
WatchUrl(id) == [t |-> "url", id |-> PyStr(id)]
\* a URL no pattern matches
OtherUrl == [t |-> "url", id |-> Missing]

\* YouTubeProcessor._extract_video_id(url)
_extract_video_id(url) == IF url.id # Missing THEN url.id.v ELSE s_unknown

\* f"{video_id}_video.mp4", f"{video_id}_audio.wav" in temp_dir
VideoFile(id) == id \o <<"_","v","i","d","e","o",".","m","p","4">>
AudioFile(id) == id \o <<"_","a","u","d","i","o",".","w","a","v">>
DownloadedFiles(id) == {VideoFile(id), AudioFile(id)}

\* glob.glob(f"{video_id}_*") over the files of temp_dir
GlobMatches(id, fs) ==
    {f \in fs : Len(f) > Len(id) /\ SubSeq(f, 1, Len(id) + 1) = id \o <<"_">>}

\* mutant: the finally block never cleans up
CleanupDue_never(vid) == FALSE

\* finally: if video_id:
CleanupDue(vid) == vid # PyNone /\ vid.v # <<>>

\* the status the handler returns: 200 from the return in the try block, 500 from
\* the except clauses when the exception went through the finally block
StatusOf(out) == IF out.ok THEN HTTP_OK ELSE HTTP_ERROR

At(l) == [at |-> l, k |-> 0]
Step(l, k) == [at |-> l, k |-> k]

AnalyzeRequest(url) == [route |-> "analyze", youtube_url |-> url]
TextRequest == [route |-> "analyze-text", youtube_url |-> Missing]
Requests ==
    {AnalyzeRequest(Missing), AnalyzeRequest(WatchUrl(VideoId1)), AnalyzeRequest(OtherUrl),
     TextRequest}

\* the files the steps from k on still read: the video at step 2, the audio at step 3
FilesNeededFrom(id, k) ==
    (IF k <= 2 THEN {VideoFile(id)} ELSE {}) \cup (IF k <= 3 THEN {AudioFile(id)} ELSE {})

InitApp ==
    /\ processors = [p \in ProcessorSet |-> PyNone]
    /\ built = [p \in ProcessorSet |-> 0]
    /\ files = {}
    /\ request \in [Threads -> Requests]
    /\ pc = [t \in Threads |-> At("initialize")]
    /\ video_id = [t \in Threads |-> PyNone]
    /\ pending = [t \in Threads |-> NotCalled]
    /\ response = [t \in Threads |-> 0]
    /\ cleanups = [t \in Threads |-> 0]
    /\ cleanup_failed = [t \in Threads |-> FALSE]
    /\ used_none = [t \in Threads |-> FALSE]
    /\ IdleNorm
    /\ IdleConf
    /\ IdleFuse
    /\ IdleChat

otherVars == <<normVars, confVars, fuseVars, chatVars>>

\* initialize_processors: if youtube_processor is None
CheckInitialized(t) ==
    /\ pc[t].at = "initialize"
    /\ pc' = [pc EXCEPT ![t] = IF processors["youtube_processor"] = PyNone
                               THEN Step("construct", 1) ELSE At("parse")]
    /\ UNCHANGED <<processors, built, files, request, video_id, pending, response,
                   cleanups, cleanup_failed, used_none, otherVars>>

\* initialize_processors: one of the five assignments
Construct(t) ==
    /\ pc[t].at = "construct"
    /\ processors' = [processors EXCEPT ![ProcessorNames[pc[t].k]] = Constructed]
    /\ built' = [built EXCEPT ![ProcessorNames[pc[t].k]] = @ + 1]
    /\ pc' = [pc EXCEPT ![t] = IF pc[t].k < Len(ProcessorNames)
                               THEN Step("construct", pc[t].k + 1) ELSE At("parse")]
    /\ UNCHANGED <<files, request, video_id, pending, response, cleanups, cleanup_failed,
                   used_none, otherVars>>

\* the handlers after initialize_processors: request.get_json and the 400 answer
ParseRequest(t) ==
    /\ pc[t].at = "parse"
    /\ IF request[t].route = "analyze-text"
       THEN pc' = [pc EXCEPT ![t] = At("analyze_text")] /\ UNCHANGED response
       ELSE IF request[t].youtube_url = Missing
       THEN /\ pc' = [pc EXCEPT ![t] = At("done")]
            /\ response' = [response EXCEPT ![t] = HTTP_BAD_REQUEST]
       ELSE pc' = [pc EXCEPT ![t] = At("download")] /\ UNCHANGED response
    /\ UNCHANGED <<processors, built, files, request, video_id, pending, cleanups,
                   cleanup_failed, used_none, otherVars>>

\* /analyze-text: text_analyzer.analyze_sentiment(data['text'])
AnalyzeText(t) ==
    /\ pc[t].at = "analyze_text"
    /\ used_none' = [used_none EXCEPT ![t] = processors["text_analyzer"] = PyNone]
    /\ response' = [response EXCEPT ![t] = IF processors["text_analyzer"] = PyNone
                                           THEN HTTP_ERROR ELSE HTTP_OK]
    /\ pc' = [pc EXCEPT ![t] = At("done")]
    /\ UNCHANGED <<processors, built, files, request, video_id, pending, cleanups,
                   cleanup_failed, otherVars>>

\* /analyze step 1: download_video returns and video_id is assigned
DownloadReturns(t) ==
    /\ pc[t].at = "download"
    /\ files' = files \cup DownloadedFiles(_extract_video_id(request[t].youtube_url))
    /\ video_id' = [video_id EXCEPT ![t] = PyStr(_extract_video_id(request[t].youtube_url))]
    /\ pc' = [pc EXCEPT ![t] = Step("analyse", 1)]
    /\ UNCHANGED <<processors, built, request, pending, response, cleanups, cleanup_failed,
                   used_none, otherVars>>

\* /analyze step 1: download_video raises, with or without the video file written;
\* the handler re-raises and the outer except answers 500
DownloadRaises(t) ==
    /\ pc[t].at = "download"
    /\ \E left \in {{}, {VideoFile(_extract_video_id(request[t].youtube_url))}} :
           files' = files \cup left
    /\ response' = [response EXCEPT ![t] = HTTP_ERROR]
    /\ pc' = [pc EXCEPT ![t] = At("done")]
    /\ UNCHANGED <<processors, built, request, video_id, pending, cleanups, cleanup_failed,
                   used_none, otherVars>>

\* /analyze steps 3 to 6, one call each: a None processor raises AttributeError,
\* a constructed one returns or raises; the last return builds the response
Analyse(t) ==
    /\ pc[t].at = "analyse"
    /\ IF processors[AnalysisSteps[pc[t].k]] = PyNone
       THEN /\ used_none' = [used_none EXCEPT ![t] = TRUE]
            /\ pending' = [pending EXCEPT ![t] = Raise("AttributeError")]
            /\ pc' = [pc EXCEPT ![t] = At("finally")]
       ELSE /\ UNCHANGED used_none
            /\ \E ok \in BOOLEAN :
                   IF ~ok
                   THEN /\ pending' = [pending EXCEPT ![t] = Raise("Exception")]
                        /\ pc' = [pc EXCEPT ![t] = At("finally")]
                   ELSE IF pc[t].k < Len(AnalysisSteps)
                   THEN /\ UNCHANGED pending
                        /\ pc' = [pc EXCEPT ![t] = Step("analyse", pc[t].k + 1)]
                   ELSE /\ pending' = [pending EXCEPT ![t] = Ok("response")]
                        /\ pc' = [pc EXCEPT ![t] = At("finally")]
    /\ UNCHANGED <<processors, built, files, request, video_id, response, cleanups,
                   cleanup_failed, otherVars>>

\* the finally block, then the return or the outer except: cleanup removes the
\* files the glob matches, stopping at the first os.remove that fails, and
\* swallows the failure
Finally(t) ==
    /\ pc[t].at = "finally"
    /\ IF CleanupDue(video_id[t])
       THEN /\ cleanups' = [cleanups EXCEPT ![t] = @ + 1]
            /\ \E removed \in SUBSET GlobMatches(video_id[t].v, files) :
                   /\ files' = files \ removed
                   /\ cleanup_failed' =
                          [cleanup_failed EXCEPT
                               ![t] = removed # GlobMatches(video_id[t].v, files)]
       ELSE UNCHANGED <<cleanups, files, cleanup_failed>>
    /\ response' = [response EXCEPT ![t] = StatusOf(pending[t])]
    /\ pc' = [pc EXCEPT ![t] = At("done")]
    /\ UNCHANGED <<processors, built, request, video_id, pending, used_none, otherVars>>

NextApp ==
    \E t \in Threads :
        \/ CheckInitialized(t)
        \/ Construct(t)
        \/ ParseRequest(t)
        \/ AnalyzeText(t)
        \/ DownloadReturns(t)
        \/ DownloadRaises(t)
        \/ Analyse(t)
        \/ Finally(t)

SpecApp == InitApp /\ [][NextApp]_vars

-----------------------------------------------------------------------------
(* Properties of fuse_results, checked under Spec *)

Called == calls > 0
\* the outcome of lines 56-81 on the arguments of the call
CallVotes == Votes(text_result, video_result, audio_result, weights)
\* the try block raised: it fails, if at all, before all_emotions is iterated
WeightedRaised == ~CallVotes.ok

\* a modality record is a mapping whose dominant label is absent or a string
IsRecord(r) == r.t = "dict" /\ (r.dominant_emotion = Missing \/ r.dominant_emotion.t = "str")
EmptyRecord == ModalityResult(Missing, Missing, Missing, Missing)

\* the normalized label a modality voted for, neutral standing for an absent one
VotedLabel(r) ==
    IF r.dominant_emotion = Missing THEN s_neutral ELSE NormStr(r.dominant_emotion.v)
VotedLabels == <<VotedLabel(text_result), VotedLabel(video_result), VotedLabel(audio_result)>>
Occurrences(e) == Cardinality({i \in 1..3 : VotedLabels[i] = e})

\* C1: fuse_results never propagates a failure of the weighted path: on records
\* that are mappings with an absent or string label, whatever the evidence
\* payloads and the weights, the call returns a result; when the weighted path
\* raised, the result is the fallback result (a most frequent label, confidence
\* 50, that label alone at 100, each modality at 33.3); three empty records give
\* dominant_emotion neutral.
C1_FuseNeverRaises ==
    (/\ Called
     /\ IsRecord(text_result) /\ IsRecord(video_result) /\ IsRecord(audio_result)) =>
        /\ Returned(outcome)
        /\ WeightedRaised =>
            /\ outcome = FallbackPath(text_result, video_result, audio_result)
            /\ \A i \in 1..3 : Occurrences(VotedLabels[i]) <= Occurrences(outcome.v.dominant_emotion)
            /\ outcome.v.confidence = Rat(50, 1)
            /\ outcome.v.emotion_scores = (outcome.v.dominant_emotion :> RatHundred)
            /\ outcome.v.modality_results =
                   [text |-> ModalityEntry(VotedLabels[1], Rat(333, 10)),
                    video |-> ModalityEntry(VotedLabels[2], Rat(333, 10)),
                    audio |-> ModalityEntry(VotedLabels[3], Rat(333, 10))]
        /\ (text_result = EmptyRecord /\ video_result = EmptyRecord /\ audio_result = EmptyRecord)
               => outcome.v.dominant_emotion = s_neutral

\* the weights lack the audio key, a score map holds a non-numeric score, one
\* label is absent: the weighted path raised and the fallback result came back
C1_Witness ==
    /\ Called
    /\ weights.t = "dict" /\ weights.audio = Missing
    /\ IsRecord(text_result) /\ IsRecord(video_result) /\ IsRecord(audio_result)
    /\ text_result.confidence_scores = Score1(s_happy, NonNumeric)
    /\ video_result.dominant_emotion = Missing
    /\ WeightedRaised
    /\ Returned(outcome)
    /\ outcome.v.confidence = Rat(50, 1)

\* C2 (as claimed): the fallback path never fails: whenever the weighted path
\* raised, also on a modality result that is None or whose label is not a
\* string, the call returns a result.
C2_FallbackNeverFails ==
    (Called /\ WeightedRaised) => Returned(outcome)

\* C3: the dominant_emotion of a returned result, from the weighted path or
\* from the fallback, is the normalized label of one of the three modalities
\* (neutral for an absent label).
C3_DominantIsAVote ==
    (Called /\ Returned(outcome)) =>
        \E i \in 1..3 : outcome.v.dominant_emotion = VotedLabels[i]

\* the modalities voted two different emotions, none of them neutral, and the
\* weighted path returned one of them
C3_Witness ==
    /\ Called /\ Returned(outcome) /\ ~WeightedRaised
    /\ Cardinality({VotedLabels[i] : i \in 1..3}) = 2
    /\ s_neutral \notin {VotedLabels[i] : i \in 1..3}
    /\ outcome.v.dominant_emotion = s_sad

\* the sum of the values of a result's emotion_scores
ScoreSum(result) == SumOver(result.emotion_scores, DOMAIN result.emotion_scores)
\* the total of the weighted scores before rescaling, m being the votes of the call
PreTotal(m) == RatAdd(RatAdd(m.wt, m.wv), m.wa)

\* C4: in every result the emotion_scores sum to 100 whenever the total of the
\* weighted scores before rescaling is greater than 0 (a fallback result holds
\* the single score 100), and when the three confidences are 0 every score is
\* left at 0 and the sum is 0.
C4_ScoresSumTo100 ==
    (Called /\ Returned(outcome)) =>
        LET got == CallVotes
            m == got.v
            sum == ScoreSum(outcome.v)
        IN  IF ~got.ok THEN sum = RatHundred
            ELSE /\ RatLess(RatZero, PreTotal(m)) => sum = RatHundred
                 /\ (m.tc = RatZero /\ m.vc = RatZero /\ m.ac = RatZero)
                        => /\ sum = RatZero
                           /\ \A e \in DOMAIN outcome.v.emotion_scores :
                                  outcome.v.emotion_scores[e] = RatZero

\* two emotions with different positive scores were rescaled
C4_Witness ==
    /\ Called /\ Returned(outcome) /\ ~WeightedRaised
    /\ RatLess(RatZero, PreTotal(CallVotes.v))
    /\ PreTotal(CallVotes.v) # RatOne
    /\ Cardinality(DOMAIN outcome.v.emotion_scores) = 2
    /\ \E e \in DOMAIN outcome.v.emotion_scores :
           RatLess(RatZero, outcome.v.emotion_scores[e])
           /\ RatLess(outcome.v.emotion_scores[e], Rat(50, 1))

\* weight(modality) of the call: the default weights stand for weights = None
CallWeight(modality) ==
    LET w == IF weights = PyNone THEN DefaultWeights ELSE weights IN w[modality].v
\* score(e): the sum of confidence(m) * weight(m) over the modalities m voting e
ClaimedScore(m, e) ==
    LET part(label, conf, modality) ==
            IF label = e THEN RatMul(conf, CallWeight(modality)) ELSE RatZero
    IN  RatAdd(RatAdd(part(m.te, m.tc, "text"), part(m.ve, m.vc, "video")),
               part(m.ae, m.ac, "audio"))

IsC5Example ==
    /\ text_result = ModalityResult(PyStr(s_happy), Score1(s_happy, PyNum(90, 1)), Missing, Missing)
    /\ video_result = ModalityResult(PyStr(s_Sad), Missing, Score1(s_Sad, PyNum(9, 1)), PyNum(10, 1))
    /\ audio_result = ModalityResult(PyStr(s_Sad), Score1(s_sad, PyNum(90, 1)), Missing, Missing)
    /\ weights = PyNone

C6_DeterministicUnderTies ==
    (calls >= 2 /\ Returned(outcome) /\ Returned(prevOutcome)) =>
        outcome.v.dominant_emotion = prevOutcome.v.dominant_emotion

\* C11: when the fallback path returns, its result is the majority vote:
\* dominant_emotion is the normalized label occurring most often among (text,
\* video, audio), the text label when all three differ; confidence is 50.0,
\* emotion_scores is exactly {dominant_emotion: 100.0}, and each modality is
\* reported with its own normalized label and confidence 33.3.
C11_FallbackMajorityVote ==
    (Called /\ WeightedRaised /\ Returned(outcome)) =>
        LET r == outcome.v
            voted == VotedLabels
            occ(e) == Cardinality({i \in 1..3 : voted[i] = e})
        IN  /\ \E i \in 1..3 : r.dominant_emotion = voted[i]
            /\ \A i \in 1..3 : occ(voted[i]) <= occ(r.dominant_emotion)
            /\ Cardinality({voted[i] : i \in 1..3}) = 3 => r.dominant_emotion = voted[1]
            /\ r.confidence = Rat(50, 1)
            /\ r.emotion_scores = (r.dominant_emotion :> RatHundred)
            /\ r.modality_results =
                   [text |-> ModalityEntry(voted[1], Rat(333, 10)),
                    video |-> ModalityEntry(voted[2], Rat(333, 10)),
                    audio |-> ModalityEntry(voted[3], Rat(333, 10))]

\* the fallback returned on three different labels and answered the text label
C11_Witness ==
    /\ Called /\ WeightedRaised /\ Returned(outcome)
    /\ Cardinality({VotedLabels[i] : i \in 1..3}) = 3
    /\ VotedLabels[1] = s_sad
    /\ VotedLabels[3] = s_happy
    /\ outcome.v.dominant_emotion = s_sad
    /\ outcome.v.modality_results.audio = ModalityEntry(s_happy, Rat(333, 10))

-----------------------------------------------------------------------------
(* Properties of normalize_emotion, checked under SpecNorm *)


\* C10: normalize_emotion is total on strings and insensitive to case, to
\* surrounding whitespace and to the synonyms: a string argument always gives a
\* result, the same one as the lower-cased and stripped argument and as the
\* upper-cased argument; fearful/disgusted/surprised give the result of
\* fear/disgust/surprise; a label in the table under neither its exact nor its
\* lower-cased and stripped spelling comes back lower-cased and stripped.
C10_NormalizeTotalInsensitive ==
    (emotion.t = "str" /\ normalized # NotCalled) =>
        LET s == emotion.v
            ls == LowerStripped(s)
        IN  /\ Returned(normalized)
            /\ normalized = normalize_emotion(PyStr(ls))
            /\ normalized = normalize_emotion(PyStr(StrUpper(s)))
            /\ (ls = s_fearful => normalized.v = NormStr(s_fear))
            /\ (ls = s_disgusted => normalized.v = NormStr(s_disgust))
            /\ (ls = s_surprised => normalized.v = NormStr(s_surprise))
            /\ (ls = s_angry => normalized.v = s_angry)
            /\ ((s \notin TableKeys /\ ls \notin TableKeys) => normalized.v = ls)

\* a label with surrounding whitespace and upper-case letters whose lower-cased
\* and stripped spelling is a synonym of the table has been normalized
C10_Witness ==
    /\ emotion.t = "str"
    /\ Returned(normalized)
    /\ emotion.v \notin TableKeys
    /\ emotion.v # StrLower(emotion.v)
    /\ StrLower(emotion.v) # LowerStripped(emotion.v)
    /\ LowerStripped(emotion.v) = s_fearful
    /\ normalized.v = s_fear

-----------------------------------------------------------------------------
(* Properties of the confidence extractors, checked under SpecConf *)

PayloadItems(p) == IF p = Missing THEN <<>> ELSE p.v
MatchingItems(items, emo) == {i \in 1..Len(items) : NormStr(items[i][1]) = emo}
NumericItems(items) == \A i \in 1..Len(items) : items[i][2].t = "num"
IsScoreMap(p) == p = Missing \/ (p.t = "dict" /\ NumericItems(p.v))

\* C7 (as claimed): _get_confidence matches the keys of the score map after
\* normalizing them: when some key normalizes to the target the result is that
\* entry's value / 100, and it is the default 0.5 only when no key normalizes to
\* the target or the score map is absent.
C7_ScoreKeysNormalized ==
    (c_out.fn = "score" /\ c_result.t = "dict" /\ IsScoreMap(c_result.confidence_scores)) =>
        LET items == PayloadItems(c_result.confidence_scores)
            hits == MatchingItems(items, c_emotion)
        IN  IF hits = {}
            THEN c_out.out = Ok(RatHalf)
            ELSE \E i \in hits : c_out.out = Ok(RatDiv(items[i][2].v, RatHundred))

IsFrameMap(p) == p = Missing \/ (p.t = "dict" /\ NumericItems(p.v))
IsVideoCall == c_out.fn = "video" /\ c_result.t = "dict"

\* C8 (as claimed): _get_video_confidence returns 0.0 whenever
\* total_frames_processed is zero, whatever the frame map holds; otherwise
\* frame_count / total of the key that normalizes to the target, and 0.5 when
\* no key normalizes to the target or the map is absent.
C8_ZeroTotalAlwaysZero ==
    (/\ IsVideoCall
     /\ IsFrameMap(c_result.emotion_distribution)
     /\ c_result.total_frames_processed.t = "num") =>
        LET items == PayloadItems(c_result.emotion_distribution)
            total == c_result.total_frames_processed.v
            hits == MatchingItems(items, c_emotion)
        IN  IF total = RatZero THEN c_out.out = Ok(RatZero)
            ELSE IF hits = {} THEN c_out.out = Ok(RatHalf)
            ELSE \E i \in hits : c_out.out = Ok(RatDiv(items[i][2].v, total))

\* C8 (amended): _get_video_confidence returns the default 0.5 when no key of
\* the frame map normalizes to the target or the map is absent, whatever
\* total_frames_processed is; when a key normalizes to the target it returns 0.0
\* if total_frames_processed is zero and frame_count / total otherwise.
\* {'Happy': 8} with total 10 gives 8/10 for 'happy'.
C8_VideoConfidence ==
    /\ (/\ IsVideoCall
        /\ IsFrameMap(c_result.emotion_distribution)
        /\ c_result.total_frames_processed.t = "num") =>
           LET items == PayloadItems(c_result.emotion_distribution)
               total == c_result.total_frames_processed.v
               hits == MatchingItems(items, c_emotion)
           IN  IF hits = {} THEN c_out.out = Ok(RatHalf)
               ELSE IF total = RatZero THEN c_out.out = Ok(RatZero)
               ELSE \E i \in hits : c_out.out = Ok(RatDiv(items[i][2].v, total))
    /\ (/\ IsVideoCall
        /\ c_result.emotion_distribution = PyDict(<< <<s_Happy, PyNum(8, 1)>> >>)
        /\ c_result.total_frames_processed = PyNum(10, 1)
        /\ c_emotion = s_happy) => c_out.out = Ok(Rat(8, 10))

\* zero frames processed and no key for the target: the default 0.5 was returned
C8_Witness ==
    /\ IsVideoCall
    /\ c_result.total_frames_processed = PyNum(0, 1)
    /\ c_result.emotion_distribution.t = "dict"
    /\ NumericItems(c_result.emotion_distribution.v)
    /\ Len(c_result.emotion_distribution.v) = 2
    /\ MatchingItems(c_result.emotion_distribution.v, c_emotion) = {}
    /\ c_out.out = Ok(RatHalf)

InUnitInterval(x) == RatLeq(RatZero, x) /\ RatLeq(x, RatOne)
ScoresInRange(items) ==
    \A i \in 1..Len(items) :
        /\ items[i][2].t = "num"
        /\ RatLeq(RatZero, items[i][2].v) /\ RatLeq(items[i][2].v, RatHundred)
\* frame counts are non-negative integers, no larger than the total when it is present
CountsInRange(items, total) ==
    \A i \in 1..Len(items) :
        /\ items[i][2].t = "num"
        /\ items[i][2].v[2] = 1 /\ items[i][2].v[1] >= 0
        /\ (total # Missing => RatLeq(items[i][2].v, total.v))

\* C9 (as claimed): every confidence the extractors produce lies in [0,1], for
\* score maps with values in 0..100 and for video results whose frame counts are
\* non-negative integers no larger than the frames processed, with
\* total_frames_processed present or absent.
C9_ConfidenceInUnitInterval ==
    /\ (/\ c_out.fn = "score" /\ c_result.t = "dict"
        /\ c_result.confidence_scores \in {Missing} \cup {p \in ScorePayloads : p.t = "dict"}
        /\ ScoresInRange(PayloadItems(c_result.confidence_scores))) =>
           (Returned(c_out.out) /\ InUnitInterval(c_out.out.v))
    /\ (/\ IsVideoCall
        /\ c_result.emotion_distribution \in {Missing} \cup {p \in FramePayloads : p.t = "dict"}
        /\ c_result.total_frames_processed \in {Missing} \cup {PyNum(c, 1) : c \in 0..MaxFrames}
        /\ CountsInRange(PayloadItems(c_result.emotion_distribution),
                         c_result.total_frames_processed)) =>
           (Returned(c_out.out) /\ InUnitInterval(c_out.out.v))

-----------------------------------------------------------------------------
(* Properties of process_message, checked under SpecChat *)

\* the spellings of the 8 moods and of their synonyms, lower-cased, with the
\* canonical mood key each stands for
RecognizedMood ==
    (s_neutral :> s_Neutral) @@ (s_happy :> s_Happy) @@ (s_sad :> s_Sad) @@
    (s_angry :> s_Angry) @@ (s_fear :> s_Fear) @@ (s_disgust :> s_Disgust) @@
    (s_surprise :> s_Surprise) @@ (s_calm :> s_Calm) @@
    (s_fearful :> s_Fear) @@ (s_disgusted :> s_Disgust) @@ (s_surprised :> s_Surprise)
CanonicalMoodKeys ==
    {s_Neutral, s_Happy, s_Sad, s_Angry, s_Fear, s_Disgust, s_Surprise, s_Calm}

\* C12: process_message calls the generative collaborator if and only if the
\* input, trimmed, lower-cased, remapped through the synonyms and title-cased, is
\* not one of the 8 mood keys: a mood in any case, with surrounding whitespace or
\* as a synonym gets that mood's canned message and no call is made; any other
\* input makes exactly one call with the raw input as prompt, and the call's text
\* is returned verbatim, its failure propagated.
C12_GenerativeCallIffUnrecognized ==
    (chat_out # NotCalled) =>
        LET key == StrLower(StrStrip(message))
            recognized == key \in DOMAIN RecognizedMood
        IN  /\ recognized <=>
                   StrTitle(IF key \in DOMAIN RecognizedMood
                            THEN StrLower(RecognizedMood[key]) ELSE key) \in CanonicalMoodKeys
            /\ recognized =>
                   /\ api_calls = <<>>
                   /\ chat_out = Ok(EMOTIONS[RecognizedMood[key]])
            /\ ~recognized =>
                   /\ api_calls = <<message>>
                   /\ api_reply # NotCalled
                   /\ chat_out = api_reply

\* a synonym in upper case with surrounding whitespace got the canned message of
\* its mood without a call
C12_Witness ==
    /\ message = <<"\t">> \o StrUpper(s_fearful) \o <<"\n">>
    /\ chat_out = Ok(EMOTIONS[s_Fear])
    /\ api_calls = <<>>

-----------------------------------------------------------------------------
(* Properties of the web application, checked under SpecApp *)

InitReturned(t) == pc[t].at \notin {"initialize", "construct"}
Answered(t) == pc[t].at = "done"

\* C13: lazy initialisation is safe under concurrent requests: once any thread's
\* call of initialize_processors has returned, all five processors are set, so no
\* request calls a method on a processor that is still None, and each processor
\* is constructed at most once.
C13_LazyInitSafe ==
    /\ (\E t \in Threads : InitReturned(t)) => \A p \in ProcessorSet : processors[p] # PyNone
    /\ \A t \in Threads : ~used_none[t]
    /\ \A p \in ProcessorSet : built[p] <= 1

\* C14: in /analyze, when download_video returned (video_id assigned), cleanup is
\* called exactly once before the response, whether the later steps returned or
\* raised, and a failure inside cleanup leaves the response what the steps made
\* it; when download_video raised or the request had no youtube_url (400),
\* cleanup is not called.
C14_CleanupExactlyOnce ==
    \A t \in Threads :
        /\ cleanups[t] <= 1
        /\ cleanups[t] = 1 => video_id[t] # PyNone
        /\ (Answered(t) /\ request[t].route = "analyze") =>
               /\ video_id[t] # PyNone =>
                      /\ cleanups[t] = 1
                      /\ response[t] = IF pending[t] = Ok("response")
                                       THEN HTTP_OK ELSE HTTP_ERROR
               /\ video_id[t] = PyNone =>
                      /\ cleanups[t] = 0
                      /\ response[t] = IF request[t].youtube_url = Missing
                                       THEN HTTP_BAD_REQUEST ELSE HTTP_ERROR

\* one request was answered 200 after a cleanup that failed, another 500 after
\* its analysis raised and its files were cleaned up
C14_Witness ==
    \E t, u \in Threads :
        /\ Answered(t) /\ response[t] = HTTP_OK /\ cleanups[t] = 1 /\ cleanup_failed[t]
        /\ Answered(u) /\ response[u] = HTTP_ERROR /\ cleanups[u] = 1
        /\ pending[u] = Raise("Exception")

\* C15: concurrent /analyze requests do not interfere through the shared temp
\* directory: whatever the interleaving, and also when both requests have the
\* same video_id or both fall back to 'unknown', the files a request has
\* downloaded stay in the directory until its analysis has read them.
C15_FilesKeptUntilAnalysed ==
    \A t \in Threads :
        pc[t].at = "analyse" => FilesNeededFrom(video_id[t].v, pc[t].k) \subseteq files

====
